---- MODULE Spec2Model ----
(***************************************************************************)
(* A model of the CurseForge -> GitHub release pipeline of src/main.py:    *)
(* the flavor resolution (_pick_slug with the external bash routine and    *)
(* the built-in toc_to_type), the manifest builder and the create-or-reuse *)
(* release publish under the 3-attempt retry that wraps run().             *)
(*                                                                         *)
(* The hosting services, the host's interpreter and the cached release.sh  *)
(* are the environment: their answers are drawn from small sets.           *)
(*                                                                         *)
(* Spec is the pipeline; LiveSpec adds the fairness of its steps;          *)
(* RecordSpec is the pipeline with the hosting service's releases and      *)
(* assets kept across the attempts; CallSpec calls the pure routines       *)
(* (toc_to_type, the interface number, _get_latest_files, _build_manifest, *)
(* _pick_slug, the routine extraction, the file naming) on their own, on   *)
(* arguments drawn from bounded sets.                                      *)
(***************************************************************************)
EXTENDS Integers, Sequences, FiniteSets, TLC

\* ------------------------------------------------------------------ bounds
\* The UTC minutes the clock can show while the process lives: 0..MaxClock.
MaxClock == 1

\* ------------------------------------------------------- program constants
\* @retry(stop=stop_after_attempt(3), ...)
stop_after_attempt == 3
\* if f["releaseType"] == 1
RELEASE_TYPE_RELEASE == 1

None == "None"

\* --------------------------------------------------------------- strings
\* str(n): the decimal digits of a non-negative integer, most significant first.
RECURSIVE str(_)
str(n) == IF n < 10 THEN <<n>> ELSE Append(str(n \div 10), n % 10)

\* s.startswith(p) over sequences (digits or tokens).
startswith(s, p) == Len(s) >= Len(p) /\ SubSeq(s, 1, Len(p)) = p

\* s.endswith(p)
endswith(s, p) ==
    Len(s) >= Len(p) /\ SubSeq(s, Len(s) - Len(p) + 1, Len(s)) = p

\* max(ivals) of a non-empty sequence of integers.
max(s) == CHOOSE m \in {s[i] : i \in 1..Len(s)} :
              \A i \in 1..Len(s) : s[i] <= m

\* ------------------------------------------------- the built-in classifier
\* A table whose first band takes a number of any length.
toc_to_type_AnyLength(toc_version) ==
    LET s == str(toc_version) IN
    IF startswith(s, <<1, 1>>) THEN "classic"
    ELSE IF startswith(s, <<2, 0>>) THEN "bcc"
    ELSE IF startswith(s, <<3, 0>>) THEN "wrath"
    ELSE IF startswith(s, <<4, 0>>) THEN "cata"
    ELSE "retail"

\* toc_to_type: the decimal-prefix bands of the built-in table.
toc_to_type(toc_version) ==
    LET s == str(toc_version) IN
    IF startswith(s, <<1, 1>>) /\ Len(s) = 5 THEN "classic"
    ELSE IF startswith(s, <<2, 0>>) THEN "bcc"
    ELSE IF startswith(s, <<3, 0>>) THEN "wrath"
    ELSE IF startswith(s, <<4, 0>>) THEN "cata"
    ELSE "retail"

\* --------------------------------------------------- the interface number
\* _pick_slug lines 197-200: split the dotted name, take major, minor and the
\* patch when there is a third component. A name is modelled by the sequence
\* of its numeric components ("1.15.6" is <<1, 15, 6>>).
InterfaceOf(gameVersionName) ==
    LET parts == gameVersionName
        major == parts[1]
        minor == parts[2]
        patch == IF Len(parts) > 2 THEN parts[3] ELSE 0
    IN major * 10000 + minor * 100 + patch

\* A version name as text: a sequence of the characters "0".."9" and ".".
DigitChars == <<"0", "1", "2", "3", "4", "5", "6", "7", "8", "9">>

\* name.split("."): the pieces between the dots, from character i on, with
\* the piece under way in cur.
RECURSIVE SplitFrom(_, _, _)
SplitFrom(name, i, cur) ==
    IF i > Len(name) THEN <<cur>>
    ELSE IF name[i] = "." THEN <<cur>> \o SplitFrom(name, i + 1, <<>>)
    ELSE SplitFrom(name, i + 1, Append(cur, name[i]))
split(name) == SplitFrom(name, 1, <<>>)

\* int(s) of a piece made of decimal digits.
RECURSIVE int(_)
int(s) ==
    LET d == CHOOSE v \in 0..9 : DigitChars[v + 1] = s[Len(s)] IN
    IF Len(s) = 1 THEN d ELSE 10 * int(SubSeq(s, 1, Len(s) - 1)) + d

\* The numeric components of a version name given as text.
NameParts(name) == [i \in 1..Len(split(name)) |-> int(split(name)[i])]

\* ivals of _pick_slug: one interface number per sortable game version.
Ivals(info) ==
    [i \in 1..Len(info.sortableGameVersions) |->
        InterfaceOf(info.sortableGameVersions[i].gameVersionName)]

\* ----------------------------------------------- release.sh and extraction
\* A line of the cached release.sh, by what _bash_toc_to_type reads of it:
\* whether it matches the opening regex ^\s*toc_to_type\s*\(\)\s*\{ and how
\* many "{" and "}" it holds.
Line(opening, lb, rb) == [opening |-> opening, lb |-> lb, rb |-> rb]

\* The scripts the cache can hold: a complete routine (with a nested brace
\* pair on one body line), a routine whose closing brace is missing, and a
\* script without the routine.
ScriptComplete ==
    << Line(FALSE, 1, 1), Line(TRUE, 1, 0), Line(FALSE, 1, 1),
       Line(FALSE, 0, 1), Line(FALSE, 0, 0) >>
ScriptUnbalanced ==
    << Line(FALSE, 0, 0), Line(TRUE, 1, 0), Line(FALSE, 1, 0),
       Line(FALSE, 0, 1) >>
ScriptWithoutRoutine ==
    << Line(FALSE, 1, 0), Line(FALSE, 0, 1) >>
Scripts == {ScriptComplete, ScriptUnbalanced, ScriptWithoutRoutine}

\* The loop of lines 111-125 from line i on, in the state (capture,
\* brace_count, func_body) the earlier lines left.
RECURSIVE ExtractFrom(_, _, _, _, _)
ExtractFrom(lines, i, capture, brace_count, func_body) ==
    IF i > Len(lines)
    THEN [brace_count |-> brace_count, func_body |-> func_body]
    ELSE IF ~capture
    THEN IF lines[i].opening
         THEN ExtractFrom(lines, i + 1, TRUE, brace_count + 1,
                          Append(func_body, i))
         ELSE ExtractFrom(lines, i + 1, FALSE, brace_count, func_body)
    ELSE LET bc == brace_count + lines[i].lb - lines[i].rb
             fb == Append(func_body, i)
         IN IF bc = 0
            THEN [brace_count |-> bc, func_body |-> fb]
            ELSE ExtractFrom(lines, i + 1, TRUE, bc, fb)

\* func_body (the numbers of the captured lines) and the final brace_count.
ExtractRoutine(lines) == ExtractFrom(lines, 1, FALSE, 0, <<>>)

\* ------------------------------------------------- the external classifier
\* What the routine of release.sh prints for an interface number when the
\* interpreter runs it: either the same bands as the built-in table, or the
\* three-digit bands of a newer packager (113/114/115 classic, 205 bcc,
\* 30 wrath, 40 cata, 50 mists).
ExtTables == {"same", "packager"}
RoutineOutput(table, iv) ==
    LET s == str(iv) IN
    IF table = "same" THEN toc_to_type(iv)
    ELSE IF \E d \in {3, 4, 5} : startswith(s, <<1, 1, d>>) THEN "classic"
    ELSE IF startswith(s, <<2, 0, 5>>) THEN "bcc"
    ELSE IF startswith(s, <<3, 0>>) THEN "wrath"
    ELSE IF startswith(s, <<4, 0>>) THEN "cata"
    ELSE IF startswith(s, <<5, 0>>) THEN "mists"
    ELSE "retail"

\* /opt/homebrew/bin/bash on the host: absent, running the script to exit
\* status 0, or exiting non-zero.
Interpreters == {"absent", "ok", "nonzero"}

\* _bash_toc_to_type on a host (script, interp, table): the exception it
\* raises, or the trimmed standard output. A script without the routine
\* leaves brace_count at 0, so nothing is raised and the harness alone runs:
\* the call of the undefined routine fails, echo prints an empty line and the
\* exit status is that of echo.
BashTocToType(script, interp, table, interface) ==
    LET ext == ExtractRoutine(script) IN
    IF ext.brace_count # 0
    THEN [raised |-> "FunctionExtractionError", out |-> None]
    ELSE IF interp = "absent"
    THEN [raised |-> "FileNotFoundError", out |-> None]
    ELSE IF interp = "nonzero"
    THEN [raised |-> "CalledProcessError", out |-> None]
    ELSE IF ext.func_body = <<>>
    THEN [raised |-> None, out |-> ""]
    ELSE [raised |-> None, out |-> RoutineOutput(table, interface)]

\* ------------------------------------------------------------- _pick_slug
\* The index of the first interface number whose external call raises, or 0.
\* interps[n] is the state of the interpreter at the n-th call that one
\* _pick_slug makes.
FirstRaise(script, interps, table, ivals) ==
    LET bad == {i \in 1..Len(ivals) :
                  BashTocToType(script, interps[i], table,
                                ivals[i]).raised # None}
    IN IF bad = {} THEN 0 ELSE CHOOSE i \in bad : \A j \in bad : i <= j

\* A fallback that keeps the slugs the external routine gave before it failed.
FallbackSlugs_KeepObtained(obtained, ivals) ==
    {obtained[i] : i \in 1..Len(obtained)}
    \cup {toc_to_type(ivals[i]) : i \in (Len(obtained) + 1)..Len(ivals)}

\* Line 205: every version is classified by the built-in table; what the
\* external routine returned before it failed is dropped with the unfinished
\* set comprehension.
FallbackSlugs(obtained, ivals) ==
    {toc_to_type(ivals[i]) : i \in 1..Len(ivals)}

\* slugs.pop() of a one-element set.
Pop(slugs) == CHOOSE x \in slugs : TRUE

\* A retail override that applies only when every version is retail.
RetailOverrides_OnlyAlone(slugs) == slugs = {"retail"}

\* Line 206: a "retail" member of the slug set overrides the others.
RetailOverrides(slugs) == "retail" \in slugs

\* A tie-break that classifies the first declared version.
TieBreakInterface_First(ivals) == ivals[1]

\* Lines 212 and 214: the tie-break classifies max(ivals).
TieBreakInterface(ivals) == max(ivals)

\* _pick_slug(info) with the script and the table of a host whose interpreter
\* is in the state interps[n] at the n-th external call. The result names the
\* exception that leaves _pick_slug (None when it returns), the slug
\* returned, the slug set, the local fallback flag, and how many times
\* _bash_toc_to_type was called.
PickSlugCalls(script, interps, table, info) ==
    LET ivals == Ivals(info)
        k     == FirstRaise(script, interps, table, ivals)
        first == IF k = 0 THEN None
                 ELSE BashTocToType(script, interps[k], table,
                                    ivals[k]).raised
        fallback == first = "FileNotFoundError"
        slugs == IF k = 0
                 THEN {BashTocToType(script, interps[i], table, ivals[i]).out :
                          i \in 1..Len(ivals)}
                 ELSE FallbackSlugs(
                          [i \in 1..(k - 1) |->
                              BashTocToType(script, interps[i], table,
                                            ivals[i]).out],
                          ivals)
        calls == IF k = 0 THEN Len(ivals) ELSE k
        tie   == BashTocToType(script, interps[Len(ivals) + 1], table,
                               TieBreakInterface(ivals))
    IN IF k # 0 /\ ~fallback
       THEN [raised |-> first, slug |-> None, slugs |-> {},
             fallback |-> FALSE, ext_calls |-> calls]
       ELSE IF RetailOverrides(slugs)
       THEN [raised |-> None, slug |-> "", slugs |-> slugs,
             fallback |-> fallback, ext_calls |-> calls]
       ELSE IF Cardinality(slugs) = 1
       THEN [raised |-> None, slug |-> Pop(slugs), slugs |-> slugs,
             fallback |-> fallback, ext_calls |-> calls]
       ELSE IF fallback
       THEN [raised |-> None, slug |-> toc_to_type(TieBreakInterface(ivals)),
             slugs |-> slugs, fallback |-> TRUE, ext_calls |-> calls]
       ELSE IF tie.raised # None
       THEN [raised |-> tie.raised, slug |-> None, slugs |-> slugs,
             fallback |-> FALSE, ext_calls |-> calls + 1]
       ELSE [raised |-> None, slug |-> tie.out, slugs |-> slugs,
             fallback |-> FALSE, ext_calls |-> calls + 1]

\* _pick_slug(info) on a host whose interpreter stays as it is.
PickSlug(script, interp, table, info) ==
    PickSlugCalls(script,
                  [n \in 1..(Len(info.sortableGameVersions) + 1) |-> interp],
                  table, info)

\* ------------------------------------------------------------ file naming
\* A file name is a sequence of tokens; ".zip" and "-" are tokens of their own,
\* so that "-<slug>" is the two tokens <<"-", slug>>.
\* fileName.rsplit(".zip", 1)[0]: what precedes the last ".zip", or the whole
\* name when it holds none.
RSplitZip(fileName) ==
    LET at == {i \in 1..Len(fileName) : fileName[i] = ".zip"} IN
    IF at = {} THEN fileName
    ELSE SubSeq(fileName, 1, (CHOOSE i \in at : \A j \in at : j <= i) - 1)

\* A naming that appends the suffix whatever the base ends with.
LocalFilename_AlwaysAppend(fileName, slug) ==
    LET base  == RSplitZip(fileName)
        base2 == IF slug # "" THEN base \o <<"-", slug>> ELSE base
    IN base2 \o <<".zip">>

\* Lines 218-221 of _download_file: the local file name for a slug.
LocalFilename(fileName, slug) ==
    LET base  == RSplitZip(fileName)
        base2 == IF slug # "" /\ ~endswith(base, <<"-", slug>>)
                 THEN base \o <<"-", slug>>
                 ELSE base
    IN base2 \o <<".zip">>

\* ---------------------------------------------------------- the mod's data
GV(name, typeId) == [gameVersionName |-> name, gameVersionTypeId |-> typeId]
File(id, releaseType, fileName, gvs) ==
    [id |-> id, releaseType |-> releaseType, fileName |-> fileName,
     sortableGameVersions |-> gvs]

\* The listing of GET /games/1/version-types: type id 3 is not in it.
VersionTypesListing == [t \in {1, 2} |-> IF t = 1 THEN "mainline" ELSE "classic"]

FileRetailClassic ==
    File(1, 1, <<"Addon", "-", "1.2.3", ".zip">>,
         <<GV(<<10, 0, 0>>, 1), GV(<<1, 15, 6>>, 2)>>)
FileClassic ==
    File(2, 1, <<"Addon", "-", "1.2.3", "-", "classic", ".zip">>,
         <<GV(<<1, 15, 6>>, 2)>>)
FileCataClassic ==
    File(3, 1, <<"Addon", ".zip">>,
         <<GV(<<4, 4>>, 3), GV(<<1, 15, 6>>, 2)>>)
FileBeta ==
    File(4, 2, <<"Addon", "-", "beta", ".zip">>, <<GV(<<10, 0, 0>>, 1)>>)
FileVanillaBcc ==
    File(5, 1, <<"Addon", "-", "1.2.3", ".zip">>,
         <<GV(<<1, 12, 0>>, 2), GV(<<2, 5, 4>>, 3)>>)

\* The "data" objects GET /mods/{mod_id} can answer with.
ModResponses ==
    { [latestFiles |-> <<FileRetailClassic, FileClassic>>,
       latestFilesIndexes |-> <<1, 2, 1>>],
      [latestFiles |-> <<FileCataClassic, FileBeta>>,
       latestFilesIndexes |-> <<4, 3, 3>>],
      [latestFiles |-> <<FileBeta>>,
       latestFilesIndexes |-> <<4>>],
      [latestFiles |-> <<FileVanillaBcc, FileClassic>>,
       latestFilesIndexes |-> <<2, 5>>] }

\* ------------------------------------------------------ _get_latest_files
\* latest: the dict comprehension of lines 180-182 (a later file of the same
\* id replaces an earlier one), as the set of ids and the lookup.
LatestIds(latestFiles) ==
    {latestFiles[i].id : i \in {j \in 1..Len(latestFiles) :
                                  latestFiles[j].releaseType = RELEASE_TYPE_RELEASE}}
LatestOf(latestFiles, fid) ==
    LET at == {j \in 1..Len(latestFiles) :
                 /\ latestFiles[j].releaseType = RELEASE_TYPE_RELEASE
                 /\ latestFiles[j].id = fid}
    IN latestFiles[CHOOSE j \in at : \A k \in at : k <= j]

\* A loop that appends a file every time its id is listed.
RECURSIVE OrderedFrom_NoSeen(_, _, _, _, _)
OrderedFrom_NoSeen(latestFiles, indexes, i, seen, ordered) ==
    IF i > Len(indexes) THEN ordered
    ELSE LET fid == indexes[i] IN
         IF fid \in LatestIds(latestFiles)
         THEN OrderedFrom_NoSeen(latestFiles, indexes, i + 1, seen,
                                 Append(ordered, LatestOf(latestFiles, fid)))
         ELSE OrderedFrom_NoSeen(latestFiles, indexes, i + 1, seen, ordered)

\* The loop of lines 183-189 from index i on.
RECURSIVE OrderedFrom(_, _, _, _, _)
OrderedFrom(latestFiles, indexes, i, seen, ordered) ==
    IF i > Len(indexes) THEN ordered
    ELSE LET fid == indexes[i] IN
         IF fid \notin seen /\ fid \in LatestIds(latestFiles)
         THEN OrderedFrom(latestFiles, indexes, i + 1, seen \cup {fid},
                          Append(ordered, LatestOf(latestFiles, fid)))
         ELSE OrderedFrom(latestFiles, indexes, i + 1, seen, ordered)

GetLatestFiles(data) ==
    OrderedFrom(data.latestFiles, data.latestFilesIndexes, 1, {}, <<>>)

\* --------------------------------------------------------- _build_manifest
\* re.search(r"(\d+\.\d+\.\d+)", fn): the first token that is a three-part
\* number, "" when there is none.
VersionTokens == {"1.2.3"}
ExtractVersion(fn) ==
    LET at == {i \in 1..Len(fn) : fn[i] \in VersionTokens} IN
    IF at = {} THEN "" ELSE fn[CHOOSE i \in at : \A j \in at : i <= j]

\* self.version_types.get(t, "mainline")
FlavorOf(registry, t) ==
    IF t \in DOMAIN registry THEN registry[t] ELSE "mainline"

\* An interface number that leaves the patch component out.
ManifestInterface_NoPatch(gameVersionName) ==
    gameVersionName[1] * 10000 + gameVersionName[2] * 100

\* Lines 244-249: the interface number as the manifest computes it.
ManifestInterface(gameVersionName) ==
    LET parts == gameVersionName IN
    parts[1] * 10000 + parts[2] * 100 + (IF Len(parts) > 2 THEN parts[3] ELSE 0)

ManifestEntry(registry, name, d) ==
    [name |-> name,
     version |-> ExtractVersion(d.fn),
     filename |-> d.fn,
     nolib |-> FALSE,
     metadata |->
        [i \in 1..Len(d.info.sortableGameVersions) |->
            [flavor |-> FlavorOf(registry,
                           d.info.sortableGameVersions[i].gameVersionTypeId),
             interface |-> ManifestInterface(
                           d.info.sortableGameVersions[i].gameVersionName)]]]

\* The downloads with a file name kept once, at its first place.
RECURSIVE FirstOfEachName(_)
FirstOfEachName(dls) ==
    IF dls = <<>> THEN <<>>
    ELSE LET init == FirstOfEachName(SubSeq(dls, 1, Len(dls) - 1))
             last == dls[Len(dls)]
         IN IF \E j \in 1..(Len(dls) - 1) : dls[j].fn = last.fn
            THEN init ELSE Append(init, last)

\* A manifest with one entry per file name.
BuildManifestOf_Dedup(registry, name, dls) ==
    [releases |-> [i \in 1..Len(FirstOfEachName(dls)) |->
                      ManifestEntry(registry, name, FirstOfEachName(dls)[i])]]

\* _build_manifest(downloads) with self.version_types and self.mod_name.
BuildManifestOf(registry, name, dls) ==
    [releases |-> [i \in 1..Len(dls) |-> ManifestEntry(registry, name, dls[i])]]

\* --------------------------------------------------------------- the state
VARIABLES
    script,         \* the lines of the local release.sh
    interp,         \* the host's /opt/homebrew/bin/bash
    table,          \* what the routine of release.sh computes
    clock,          \* the current UTC minute
    releases,       \* hosting service: tag -> number of releases carrying it
    pc,             \* where the process is
    attempt,        \* how many times run() has been started
    exc,            \* the exception in flight or that ended the process
    version_types,  \* self.version_types
    mod_name,       \* self.mod_name
    files,          \* run(): files
    downloads,      \* run(): downloads, a sequence of [fn, slug, info]
    picks,          \* the _pick_slug calls of this attempt, in order
    release_json,   \* release.json: <<>> or the one manifest written last
    changelogs,     \* run(): how many changelogs have been fetched
    tag,            \* run(): tag
    upload_url,     \* run(): upload_url, named by the release's tag
    uploads,        \* the asset names uploaded with success in this attempt
    trace,          \* the requests and writes of this attempt, in order
    created,        \* the watched tags whose release this process created
    assets,         \* hosting service: watched tag -> asset name -> times stored
    call            \* a routine called on its own: its name, argument, result

host     == <<script, interp, table>>
instance == <<version_types, mod_name>>
locals   == <<files, downloads, picks, changelogs, tag, upload_url, uploads,
             trace>>
vars == <<script, interp, table, clock, releases, pc, attempt, exc,
          version_types, mod_name, files, downloads, picks, release_json,
          changelogs, tag, upload_url, uploads, trace, created, assets,
          call>>

Tags == 0..MaxClock
\* No tag computed yet, no release resolved yet.
NoTag == 0 - 1

NoExc == [type |-> None, at |-> None]
Exc(type, at) == [type |-> type, at |-> at]
\* A request or write of run(): arg is the file id or the tag it is about (0
\* when it has none), status the answer's status (0 when it has none).
Ev(op, arg, status) == [op |-> op, arg |-> arg, status |-> status]

\* The answers of the services.
ReadStatuses   == {200, 500}
CreateStatuses == {201, 500}
UploadStatuses == {201, 422}
\* GET releases/tags/{tag}: 404 exactly when no release carries the tag, 200
\* when one does, or a server error.
LookupStatuses(t) == (IF releases[t] = 0 THEN {404} ELSE {200}) \cup {500}

\* A status check that is left out.
raise_for_status_Ignored(status) == FALSE

\* r.raise_for_status() raises HTTPError for a 4xx or 5xx status.
raise_for_status(status) == status >= 400

\* A create POST issued whatever the lookup answered.
LookupAsksCreate_Always(status) == TRUE

\* A create POST issued on every failed lookup.
LookupAsksCreate_AnyFailure(status) == status >= 400

\* Line 266: the create POST is issued when the lookup answered 404.
LookupAsksCreate(status) == status = 404

\* A retry predicate that covers every BaseException.
RetriesOn_BaseException(type) == TRUE

\* A retry predicate that leaves HTTP errors out.
RetriesOn_NotHTTPError(type) == type \notin {"SystemExit", "HTTPError"}

\* The retry predicate of the decorator of run(): tenacity retries on an
\* Exception; SystemExit is not one and is re-raised at once.
RetriesOn(type) == type # "SystemExit"

\* A stop condition that allows one attempt more.
StopsAfter_OffByOne(n) == n > stop_after_attempt

\* stop_after_attempt(3): no further attempt once this many were made.
StopsAfter(n) == n >= stop_after_attempt

\* The assets of a release: how many times each name has been stored.
NoAssets == [n \in {} |-> 0]
\* The assets once an upload of name has been answered 201.
Stored(stored, name) ==
    IF name \in DOMAIN stored
    THEN [stored EXCEPT ![name] = @ + 1]
    ELSE [n \in DOMAIN stored \cup {name} |->
            IF n = name THEN 1 ELSE stored[n]]

\* The releases of which the hosting service's record is kept in the state.
\* The process never reads the record.
Watched == DOMAIN assets
NoneWatched == [t \in {} |-> NoAssets]
AllWatched == [t \in Tags |-> NoAssets]

\* A call of one routine: out is <<>> until it returns, then <<result>>.
Call(fn, arg) == [fn |-> fn, arg |-> arg, out |-> <<>>]
\* The pipeline runs as a whole: no routine is called on its own.
NoCall == Call("", <<>>)

FreshLocals ==
    /\ files' = <<>>
    /\ downloads' = <<>>
    /\ picks' = <<>>
    /\ changelogs' = 0
    /\ tag' = NoTag
    /\ upload_url' = NoTag
    /\ uploads' = <<>>
    /\ trace' = <<>>

PipelineInit ==
    /\ script \in Scripts
    /\ interp \in Interpreters
    /\ table \in ExtTables
    /\ clock = 0
    /\ releases \in [Tags -> {0, 1}]
    /\ pc = "init"
    /\ attempt = 0
    /\ exc = NoExc
    /\ version_types = <<>>
    /\ mod_name = ""
    /\ files = <<>>
    /\ downloads = <<>>
    /\ picks = <<>>
    /\ release_json = <<>>
    /\ changelogs = 0
    /\ tag = NoTag
    /\ upload_url = NoTag
    /\ uploads = <<>>
    /\ trace = <<>>
    /\ created = {}
    /\ call = NoCall

Init == PipelineInit /\ assets = NoneWatched

\* The same pipeline with the record of every release kept.
RecordInit == PipelineInit /\ assets = AllWatched

\* self._pick_slug(info) on the host the process runs on.
PickSlugOnHost(info) == PickSlug(script, interp, table, info)

\* An exception leaves run(): the retry wrapper sees it next.
Raise(type, at, ev) ==
    /\ exc' = Exc(type, at)
    /\ pc' = "raised"
    /\ trace' = Append(trace, ev)

\* __main__ and __init__ (lines 77-83, 317-321): the version types, the
\* classifier script (downloaded unless a fresh copy is cached) and the mod
\* name are fetched in the constructor, outside run(); then run() is called.
Construct ==
    /\ pc = "init"
    /\ \E vt \in ReadStatuses, cached \in BOOLEAN, sh \in ReadStatuses,
          nm \in ReadStatuses :
         LET failed ==
               IF raise_for_status(vt) THEN "version-types"
               ELSE IF ~cached /\ raise_for_status(sh) THEN "release.sh"
               ELSE IF raise_for_status(nm) THEN "mod-name"
               ELSE None
         IN IF failed # None
            THEN /\ exc' = Exc("HTTPError", failed)
                 /\ pc' = "error"
                 /\ UNCHANGED <<attempt, version_types, mod_name>>
            ELSE /\ version_types' = VersionTypesListing
                 /\ mod_name' = "Addon"
                 /\ attempt' = 1
                 /\ pc' = "latest"
                 /\ exc' = NoExc
    /\ UNCHANGED <<call, host, created, assets, clock, releases,
                   release_json, locals>>

\* run() lines 293-296: the latest files, and the exit when there are none.
LatestFiles ==
    /\ pc = "latest"
    /\ \E st \in ReadStatuses, data \in ModResponses :
         IF raise_for_status(st)
         THEN /\ Raise("HTTPError", "latest-files", Ev("latest", 0, st))
              /\ UNCHANGED files
         ELSE /\ files' = GetLatestFiles(data)
              /\ trace' = Append(trace, Ev("latest", 0, st))
              /\ IF files' = <<>>
                 THEN /\ exc' = Exc("SystemExit", "latest-files")
                      /\ pc' = "raised"
                 ELSE /\ pc' = "download"
                      /\ UNCHANGED exc
    /\ UNCHANGED <<call, host, created, assets, clock, releases, attempt,
                   instance, release_json,
                   downloads, picks, changelogs, tag, upload_url, uploads>>

\* _download_file for the next file of the list comprehension of line 298.
DownloadFile ==
    /\ pc = "download"
    /\ \E info \in {files[Len(downloads) + 1]} :
       \E pick \in {PickSlugOnHost(info)} :
          /\ picks' = Append(picks, [info |-> info] @@ pick)
          /\ IF pick.raised # None
             THEN /\ Raise(pick.raised, "classify",
                           Ev("classify", info.id, 0))
                  /\ UNCHANGED downloads
             ELSE \E st \in ReadStatuses :
                    IF raise_for_status(st)
                    THEN /\ Raise("HTTPError", "download",
                                  Ev("download", info.id, st))
                         /\ UNCHANGED downloads
                    ELSE /\ downloads' = Append(downloads,
                              [fn |-> LocalFilename(info.fileName, pick.slug),
                               slug |-> pick.slug, info |-> info])
                         /\ trace' = Append(trace, Ev("download", info.id, st))
                         /\ pc' = IF Len(downloads') = Len(files)
                                  THEN "manifest" ELSE "download"
                         /\ UNCHANGED exc
    /\ UNCHANGED <<call, host, created, assets, clock, releases, attempt,
                   instance, release_json,
                   files, changelogs, tag, upload_url, uploads>>

\* Lines 299-301: the manifest is built and written to release.json.
BuildManifest ==
    /\ pc = "manifest"
    /\ release_json' = <<BuildManifestOf(version_types, mod_name, downloads)>>
    /\ trace' = Append(trace, Ev("manifest", 0, 0))
    /\ pc' = "changelog"
    /\ UNCHANGED <<call, host, created, assets, clock, releases, attempt,
                   exc, instance, files,
                   downloads, picks, changelogs, tag, upload_url, uploads>>

\* _fetch_changelog_md for the next download (line 303).
FetchChangelog ==
    /\ pc = "changelog"
    /\ LET id == downloads[changelogs + 1].info.id IN
       \E st \in ReadStatuses :
         IF raise_for_status(st)
         THEN /\ Raise("HTTPError", "changelog", Ev("changelog", id, st))
              /\ UNCHANGED changelogs
         ELSE /\ changelogs' = changelogs + 1
              /\ trace' = Append(trace, Ev("changelog", id, st))
              /\ pc' = IF changelogs' = Len(downloads)
                       THEN "release" ELSE "changelog"
              /\ UNCHANGED exc
    /\ UNCHANGED <<call, host, created, assets, clock, releases, attempt,
                   instance, release_json,
                   files, downloads, picks, tag, upload_url, uploads>>

\* Lines 306-307 and _get_or_create_release: the tag is the current UTC
\* minute; the release is looked up by tag, created when the lookup answers
\* 404, and the status of the last answer decides.
GetOrCreateRelease ==
    /\ pc = "release"
    /\ tag' = clock
    /\ \E lk \in LookupStatuses(clock), cr \in CreateStatuses :
         LET looked == Append(trace, Ev("lookup", clock, lk))
             posted == Append(looked, Ev("create", clock, cr))
         IN IF LookupAsksCreate(lk)
            THEN /\ trace' = posted
                 /\ IF raise_for_status(cr)
                    THEN /\ exc' = Exc("HTTPError", "create")
                         /\ pc' = "raised"
                         /\ UNCHANGED <<releases, created, upload_url>>
                    ELSE /\ releases' = [releases EXCEPT ![clock] = @ + 1]
                         /\ created' = created \cup ({clock} \cap Watched)
                         /\ upload_url' = clock
                         /\ pc' = "upload"
                         /\ UNCHANGED exc
            ELSE /\ trace' = looked
                 /\ UNCHANGED <<releases, created>>
                 /\ IF raise_for_status(lk)
                    THEN /\ exc' = Exc("HTTPError", "lookup")
                         /\ pc' = "raised"
                         /\ UNCHANGED upload_url
                    ELSE /\ upload_url' = clock
                         /\ pc' = "upload"
                         /\ UNCHANGED exc
    /\ UNCHANGED <<call, host, assets, clock, attempt, instance,
                   release_json, files, downloads, picks, changelogs,
                   uploads>>

\* An upload loop that resumes: it passes over the artifacts the release
\* already holds.
NextAsset_Resume ==
    LET pending == {i \in (Len(uploads) + 1)..Len(downloads) :
                      \/ upload_url \notin Watched
                      \/ downloads[i].fn \notin DOMAIN assets[upload_url]}
    IN IF pending = {} THEN <<"release.json">>
       ELSE downloads[CHOOSE i \in pending : \A j \in pending : i <= j].fn

\* An upload loop that sends release.json first.
NextAsset_ManifestFirst ==
    IF uploads = <<>>
    THEN <<"release.json">>
    ELSE downloads[Len(uploads)].fn

\* The asset the loop of lines 309-311 uploads next: the downloads in order,
\* then release.json.
NextAsset ==
    IF Len(uploads) < Len(downloads)
    THEN downloads[Len(uploads) + 1].fn
    ELSE <<"release.json">>

\* The id of the file that asset was downloaded from, 0 for release.json.
NextAssetId ==
    IF Len(uploads) < Len(downloads)
    THEN downloads[Len(uploads) + 1].info.id
    ELSE 0

\* _upload_asset for the next asset.
UploadAsset ==
    /\ pc = "upload"
    /\ \E st \in UploadStatuses :
         IF raise_for_status(st)
         THEN /\ Raise("HTTPError", "upload", Ev("upload", NextAssetId, st))
              /\ UNCHANGED <<uploads, assets>>
         ELSE /\ uploads' = Append(uploads, NextAsset)
              /\ assets' = IF upload_url \in Watched
                            THEN [assets EXCEPT
                                    ![upload_url] = Stored(@, NextAsset)]
                            ELSE assets
              /\ trace' = Append(trace, Ev("upload", NextAssetId, st))
              /\ pc' = IF Len(uploads) = Len(downloads) THEN "ok" ELSE "upload"
              /\ UNCHANGED exc
    /\ UNCHANGED <<call, host, created, clock, releases, attempt, instance,
                   release_json, files, downloads, picks, changelogs, tag,
                   upload_url>>

\* The retry wrapper of run() (lines 286-289) once an exception left run():
\* an exception it does not retry on is re-raised; after the last attempt the
\* wrapper raises RetryError; otherwise it waits and calls run() afresh.
RetryCall ==
    /\ pc = "raised"
    /\ IF ~RetriesOn(exc.type)
       THEN /\ pc' = "error"
            /\ UNCHANGED <<attempt, exc, locals>>
       ELSE IF StopsAfter(attempt)
       THEN /\ pc' = "error"
            /\ exc' = Exc("RetryError", exc.at)
            /\ UNCHANGED <<attempt, locals>>
       ELSE /\ attempt' = attempt + 1
            /\ pc' = "latest"
            /\ exc' = NoExc
            /\ FreshLocals
    /\ UNCHANGED <<call, host, created, assets, clock, releases, instance,
                   release_json>>

\* Time passes while the process lives.
Tick ==
    /\ pc \notin {"ok", "error"}
    /\ clock < MaxClock
    /\ clock' = clock + 1
    /\ UNCHANGED <<call, host, created, assets, releases, pc, attempt, exc,
                   instance, release_json,
                   locals>>

\* A step of the process itself.
Step ==
    \/ Construct
    \/ LatestFiles
    \/ DownloadFile
    \/ BuildManifest
    \/ FetchChangelog
    \/ GetOrCreateRelease
    \/ UploadAsset
    \/ RetryCall

Next == Step \/ Tick

Spec == Init /\ [][Next]_vars

\* The process is sequential and every call it makes returns: it keeps
\* taking steps until it has terminated.
LiveSpec == Spec /\ WF_vars(Step)

RecordSpec == RecordInit /\ [][Next]_vars

Terminated == pc \in {"ok", "error"}

\* ------------------------------------------- the routines on their own
\* The pipeline's variables while a routine is called on its own.
Idle ==
    /\ script = ScriptComplete
    /\ interp = "ok"
    /\ table = "same"
    /\ clock = 0
    /\ releases = [t \in Tags |-> 0]
    /\ pc = "call"
    /\ attempt = 0
    /\ exc = NoExc
    /\ version_types = <<>>
    /\ mod_name = ""
    /\ files = <<>>
    /\ downloads = <<>>
    /\ picks = <<>>
    /\ release_json = <<>>
    /\ changelogs = 0
    /\ tag = NoTag
    /\ upload_url = NoTag
    /\ uploads = <<>>
    /\ trace = <<>>
    /\ created = {}
    /\ assets = NoneWatched

pipeline == <<host, clock, releases, pc, attempt, exc, instance, release_json,
              locals, created, assets>>

\* The routine fn returns result.
Return(fn, result) ==
    /\ call.fn = fn
    /\ call.out = <<>>
    /\ call' = [call EXCEPT !.out = <<result>>]
    /\ UNCHANGED pipeline

Returned(fn) == call.fn = fn /\ call.out # <<>>

\* The version names a call is made with: every major.minor and
\* major.minor.patch up to these components.
MaxMajor == 11
MaxMinor == 15
MaxPatch == 6
Components ==
    {<<ma, mi>> : ma \in 0..MaxMajor, mi \in 0..MaxMinor}
    \cup {<<ma, mi, pa>> : ma \in 0..MaxMajor, mi \in 0..MaxMinor,
                           pa \in 0..MaxPatch}

\* The interface numbers toc_to_type is called with: those of the version
\* names, and numbers of one to six digits around the bands.
TocVersions ==
    {InterfaceOf(c) : c \in Components}
    \cup {0, 11, 20, 113, 205, 1100, 2000, 3080, 4000, 200000, 300100, 401234}

CallTocToType ==
    Return("toc_to_type", toc_to_type(call.arg))

\* The text of a version name with the given numeric components.
RECURSIVE Dotted(_)
Dotted(parts) ==
    LET digits == str(parts[Len(parts)])
        text   == [i \in 1..Len(digits) |-> DigitChars[digits[i] + 1]]
    IN IF Len(parts) = 1 THEN text
       ELSE Dotted(SubSeq(parts, 1, Len(parts) - 1)) \o <<".">> \o text

\* The version names the interface number is computed of: the names of
\* Components, names of four components, and names with a leading zero.
VersionNames ==
    {[parts |-> c, name |-> Dotted(c)] : c \in Components}
    \cup {[parts |-> c \o <<x>>, name |-> Dotted(c \o <<x>>)] :
             c \in {<<1, 15, 6>>, <<10, 0, 0>>}, x \in {0, 54321}}
    \cup {[parts |-> <<1, 5, 6>>, name |-> <<"1", ".", "0", "5", ".", "6">>],
          [parts |-> <<4, 4>>, name |-> <<"0", "4", ".", "4">>]}

\* The interface number of one version name, as _pick_slug computes it
\* (lines 197-200) and as _build_manifest computes it (lines 244-249).
CallInterface ==
    Return("interface",
           [resolver |-> InterfaceOf(NameParts(call.arg.name)),
            manifest |-> ManifestInterface(NameParts(call.arg.name))])

\* The sequences over S of length at most n.
SeqsUpTo(S, n) == UNION {[1..k -> S] : k \in 0..n}

\* The "data" objects _get_latest_files is called on: up to MaxLatest files
\* of ids 1 and 2 and of any release type (1 release, 2 beta, 3 alpha), and
\* up to MaxIndexes index entries naming the ids 1, 2 and 3.
MaxLatest == 2
MaxIndexes == 3
LatestData ==
    {[latestFiles |-> lf, latestFilesIndexes |-> ix] :
        lf \in SeqsUpTo({[id |-> i, releaseType |-> rt] :
                             i \in {1, 2}, rt \in {1, 2, 3}}, MaxLatest),
        ix \in SeqsUpTo({1, 2, 3}, MaxIndexes)}

CallGetLatestFiles ==
    Return("_get_latest_files", GetLatestFiles(call.arg))

\* The downloads _build_manifest is called on: up to MaxDownloads triples
\* (fn, slug, info) of the mod's release files, a triple twice included, with
\* the listed registry of version types or an empty one.
MaxDownloads == 2
DownloadTriples ==
    {[fn |-> LocalFilename(f.fileName, sl), slug |-> sl, info |-> f] :
        f \in {FileRetailClassic, FileClassic, FileCataClassic, FileVanillaBcc},
        sl \in {"", "classic"}}
ManifestInputs ==
    {[registry |-> reg, name |-> "Addon", downloads |-> dls] :
        reg \in {VersionTypesListing, <<>>},
        dls \in SeqsUpTo(DownloadTriples, MaxDownloads)}

CallBuildManifest ==
    Return("_build_manifest",
           BuildManifestOf(call.arg.registry, call.arg.name,
                           call.arg.downloads))

\* A build of three flavors that the two tables classify differently
\* (5.4.0 is retail in the built-in table, mists in the packager's).
FileThreeFlavors ==
    File(6, 1, <<"Addon", ".zip">>,
         <<GV(<<5, 4, 0>>, 1), GV(<<3, 4, 2>>, 3), GV(<<4, 4, 0>>, 3)>>)

\* The calls of _pick_slug: every script and table, every release file, and
\* an interpreter that can be in any state at each of the up to MaxExtCalls
\* external calls of one resolution (it can vanish or fail part-way).
MaxExtCalls == 4
PickInputs ==
    {[script |-> sc, interps |-> ips, table |-> tb, info |-> f] :
        sc \in Scripts, tb \in ExtTables,
        ips \in [1..MaxExtCalls -> Interpreters],
        f \in {FileRetailClassic, FileClassic, FileCataClassic,
               FileVanillaBcc, FileThreeFlavors}}

CallPickSlug ==
    Return("_pick_slug",
           PickSlugCalls(call.arg.script, call.arg.interps, call.arg.table,
                         call.arg.info))

\* The scripts _bash_toc_to_type is called on: up to MaxLines lines, each an
\* opening line of the routine (which holds the opening brace alone) or a
\* line with no brace, an opening one, a closing one, a pair, or two closing
\* ones.
MaxLines == 4
LineKinds ==
    {Line(TRUE, 1, 0), Line(FALSE, 0, 0), Line(FALSE, 1, 0),
     Line(FALSE, 0, 1), Line(FALSE, 1, 1), Line(FALSE, 0, 2)}
ScriptTexts == SeqsUpTo(LineKinds, MaxLines)

\* _bash_toc_to_type(11506) on a host whose interpreter runs what it is
\* given: the extraction, and the exception or the output of the call.
CallBashTocToType ==
    Return("_bash_toc_to_type",
           [ext |-> ExtractRoutine(call.arg),
            res |-> BashTocToType(call.arg, "ok", "same", 11506)])

\* The declared file names _download_file names a local file for: zip
\* archives whose name before the final ".zip" has up to MaxTokens tokens
\* (a ".zip" inside the name included), with an empty slug or a flavor.
MaxTokens == 3
NamingInputs ==
    {[fileName |-> t \o <<".zip">>, slug |-> sl] :
        t \in SeqsUpTo({"Addon", "-", "classic", "bcc", ".zip"}, MaxTokens),
        sl \in {"", "classic", "bcc"}}

\* The naming of lines 218-221, applied once and applied again to its result.
CallLocalFilename ==
    Return("_download_file",
           [once  |-> LocalFilename(call.arg.fileName, call.arg.slug),
            twice |-> LocalFilename(
                          LocalFilename(call.arg.fileName, call.arg.slug),
                          call.arg.slug)])

CallInit ==
    /\ Idle
    /\ \/ call \in {Call("toc_to_type", n) : n \in TocVersions}
       \/ call \in {Call("interface", v) : v \in VersionNames}
       \/ call \in {Call("_get_latest_files", d) : d \in LatestData}
       \/ call \in {Call("_build_manifest", m) : m \in ManifestInputs}
       \/ call \in {Call("_pick_slug", a) : a \in PickInputs}
       \/ call \in {Call("_bash_toc_to_type", t) : t \in ScriptTexts}
       \/ call \in {Call("_download_file", n) : n \in NamingInputs}

CallNext ==
    \/ CallTocToType
    \/ CallInterface
    \/ CallGetLatestFiles
    \/ CallBuildManifest
    \/ CallPickSlug
    \/ CallBashTocToType
    \/ CallLocalFilename

CallSpec == CallInit /\ [][CallNext]_vars

\* ------------------------------------------------------------ properties
CreatedNow(t) == releases'[t] # releases[t]

\* C1: a create POST is issued only right after a lookup of the same tag that
\* answered 404; a step in which the lookup succeeded leaves every release as
\* it was; and no tag is ever carried by more than one release, over all
\* attempts and whether or not an earlier run already published the tag.
C1_CreateOnlyAfter404 ==
    /\ [](\A t \in Tags : releases[t] <= 1)
    /\ [](\A i \in 1..Len(trace) :
            trace[i].op = "create" =>
               /\ i > 1
               /\ trace[i - 1] = Ev("lookup", trace[i].arg, 404))
    /\ [][\A t \in Tags :
            CreatedNow(t) =>
               /\ releases[t] = 0
               /\ releases'[t] = 1
               /\ Len(trace') = Len(trace) + 2
               /\ trace'[Len(trace') - 1] = Ev("lookup", t, 404)
               /\ trace'[Len(trace')] = Ev("create", t, 201)]_vars
    /\ [][(pc = "release" /\ pc' = "upload" /\ releases[clock] > 0) =>
            /\ releases' = releases
            /\ trace' = Append(trace, Ev("lookup", clock, 200))
            /\ upload_url' = clock]_vars

\* C1 witness: a retry attempt found the release of its tag and reuses it.
C1_Witness ==
    /\ attempt >= 2
    /\ pc = "upload"
    /\ trace[Len(trace)] = Ev("lookup", tag, 200)
    /\ releases[tag] = 1

\* The external classifier cannot be used on this host: the routine is
\* malformed or missing in release.sh, or the interpreter is absent or exits
\* non-zero.
ExternalUnusable ==
    \/ ExtractRoutine(script).brace_count # 0
    \/ ExtractRoutine(script).func_body = <<>>
    \/ interp \in {"absent", "nonzero"}

\* The slug of a build by the built-in table alone (steps 3-6 of the flavor
\* resolution over toc_to_type).
BuiltInSlug(info) ==
    LET ivals == Ivals(info)
        slugs == {toc_to_type(ivals[i]) : i \in 1..Len(ivals)}
        top   == CHOOSE m \in {ivals[i] : i \in 1..Len(ivals)} :
                    \A i \in 1..Len(ivals) : ivals[i] <= m
    IN IF "retail" \in slugs THEN ""
       ELSE IF Cardinality(slugs) = 1 THEN CHOOSE x \in slugs : TRUE
       ELSE toc_to_type(top)

\* C2: whenever the external classifier cannot be used, every _pick_slug call
\* returns the slug of the built-in classifier, and no classifier failure
\* leaves _pick_slug: none reaches run() or the retry wrapper.
C2_UnusableClassifierFallsBack ==
    /\ exc.at # "classify"
    /\ ExternalUnusable =>
          \A i \in 1..Len(picks) :
             /\ picks[i].raised = None
             /\ picks[i].slug = BuiltInSlug(picks[i].info)

\* C3: once an external classification has failed in an attempt, no later
\* _pick_slug of the attempt calls the external routine again.
C3_FallbackIsSticky ==
    \A i \in 1..Len(picks) : \A j \in 1..Len(picks) :
       (i < j /\ (picks[i].fallback \/ picks[i].raised # None)) =>
          picks[j].ext_calls = 0

\* The wrapper starts run() afresh: from the first step, with fresh locals.
FreshAttemptStarts ==
    /\ attempt' = attempt + 1
    /\ pc' = "latest"
    /\ exc' = NoExc
    /\ files' = <<>> /\ downloads' = <<>> /\ picks' = <<>>
    /\ changelogs' = 0 /\ tag' = NoTag /\ upload_url' = NoTag
    /\ uploads' = <<>> /\ trace' = <<>>

\* An exception (not the exit of an empty selection) has left run().
AttemptFailed == pc = "raised" /\ exc.type # "SystemExit"

\* C4: run() is started at most 3 times; an attempt that an exception ended
\* is followed by a fresh attempt that starts at the first step of run() with
\* nothing kept, as long as fewer than 3 attempts were made; the failure of
\* the third attempt ends the process in error; run() is entered only from
\* the constructor or the wrapper; and the process always terminates. (The
\* exit on an empty selection is a process exit, not an exception: C6.)
C4_BoundedRetryTerminates ==
    /\ [](attempt <= 3)
    /\ [][(AttemptFailed /\ pc' # pc) =>
            IF attempt < 3
            THEN FreshAttemptStarts
            ELSE /\ pc' = "error"
                 /\ attempt' = attempt
                 /\ exc'.type = "RetryError"]_vars
    /\ [][attempt' # attempt =>
            /\ attempt' = attempt + 1
            /\ pc' = "latest"
            /\ trace' = <<>>
            /\ pc = "init" \/ AttemptFailed]_vars
    /\ [][pc = "ok" => pc' = "ok"]_vars
    /\ <>Terminated

\* C4 witness: the third attempt has failed and the process ended in error.
C4_Witness ==
    /\ pc = "error"
    /\ attempt = 3
    /\ exc.type = "RetryError"
    /\ Len(trace) >= 1

\* The read endpoints of the constructor and those of run().
ConstructorReads == {"version-types", "release.sh", "mod-name"}
RunReads == {"latest-files", "download", "changelog"}
ReadOps == {"latest", "download", "changelog"}

\* C5 as stated: a non-success answer from any read endpoint, those of the
\* constructor included, triggers the retry, so that a process that such an
\* answer ended in error has made all 3 attempts.
C5_AnyReadFailureRetries ==
    (pc = "error" /\ exc.at \in ConstructorReads \cup RunReads
                  /\ exc.type \in {"HTTPError", "RetryError"})
       => attempt = 3

\* C5 amended: a non-success answer to a read made inside run() (the latest
\* files of the mod lookup, a file download, a changelog fetch) is the last
\* request of its attempt and raises out of run(), and the wrapper then starts
\* a fresh attempt while fewer than 3 were made, else ends the process in
\* error; a non-success answer to a read of the constructor (version types,
\* classifier script, mod name) ends the process in error before any attempt
\* and is never retried.
C5_RunReadFailureRetries ==
    /\ [](\A i \in 1..Len(trace) :
            (trace[i].op \in ReadOps /\ trace[i].status >= 400) =>
               /\ i = Len(trace)
               /\ pc \in {"raised", "error"}
               /\ exc.at \in RunReads
               /\ exc.type \in {"HTTPError", "RetryError"})
    /\ [][(pc = "raised" /\ exc.type = "HTTPError" /\ exc.at \in RunReads
              /\ pc' # pc) =>
            IF attempt < 3
            THEN FreshAttemptStarts
            ELSE pc' = "error" /\ attempt' = attempt]_vars
    /\ [](exc.at \in ConstructorReads =>
            /\ pc = "error"
            /\ exc.type = "HTTPError"
            /\ attempt = 0
            /\ trace = <<>>)
    /\ [][exc.at \in ConstructorReads => UNCHANGED vars]_vars

\* C5 witness: a download answered 500 in the second attempt and the
\* exception is on its way to the wrapper.
C5_Witness ==
    /\ pc = "raised"
    /\ attempt = 2
    /\ exc = Exc("HTTPError", "download")
    /\ trace[Len(trace)].op = "download"
    /\ trace[Len(trace)].status = 500

\* C6: an empty latest-file selection ends the process in error at once: the
\* attempt has made the one request that listed the files and nothing else
\* (no download, manifest write, lookup, create or upload), and from then on
\* no attempt is started and nothing is requested, written or created.
C6_EmptySelectionExits ==
    /\ []((Len(trace) >= 1 /\ trace[1].status = 200 /\ files = <<>>) =>
            exc.type = "SystemExit")
    /\ [](exc.type = "SystemExit" =>
            /\ pc \in {"raised", "error"}
            /\ files = <<>>
            /\ trace = <<Ev("latest", 0, 200)>>
            /\ downloads = <<>> /\ picks = <<>> /\ uploads = <<>>
            /\ upload_url = NoTag)
    /\ [][exc.type = "SystemExit" =>
            /\ pc' \in {pc, "error"}
            /\ UNCHANGED <<attempt, exc, releases, release_json, locals>>]_vars

\* C6 witness: the first attempt found no file and the process has exited.
C6_Witness ==
    /\ pc = "error"
    /\ exc.type = "SystemExit"
    /\ attempt = 1

\* The upload requests of the current attempt, in order.
UploadEvents == SelectSeq(trace, LAMBDA e : e.op = "upload")

\* Every asset of the attempt was uploaded with success to the resolved
\* release: the downloaded files in order, then release.json.
AllAssetsUploaded ==
    /\ files # <<>>
    /\ Len(downloads) = Len(files)
    /\ upload_url = tag /\ tag \in Tags /\ releases[tag] >= 1
    /\ Len(UploadEvents) = Len(downloads) + 1
    /\ \A i \in 1..Len(UploadEvents) :
          /\ UploadEvents[i].status < 400
          /\ UploadEvents[i].arg =
                IF i <= Len(downloads) THEN downloads[i].info.id ELSE 0
    /\ uploads = [i \in 1..Len(downloads) + 1 |->
                    IF i <= Len(downloads) THEN downloads[i].fn
                    ELSE <<"release.json">>]

\* C7: the process ends with success only when, in its final attempt, every
\* downloaded artifact and release.json were uploaded with success to the
\* resolved release; every other terminal state is the error exit, with the
\* exception that ended the process.
C7_NoPartialSuccess ==
    /\ pc = "ok" => (AllAssetsUploaded /\ exc = NoExc)
    /\ (Terminated /\ ~AllAssetsUploaded) => (pc = "error" /\ exc # NoExc)

\* C7 witness: the third attempt succeeded after two failed ones.
C7_Witness ==
    /\ pc = "ok"
    /\ attempt = 3
    /\ Len(uploads) = 3

\* C8: a lookup answered 404 is followed by the create POST; any other
\* non-success lookup answer is the last request of the attempt (no create
\* POST, no upload) and raises; a non-success answer to the create POST is
\* the last request of the attempt too (no upload) and raises.
C8_LookupAndCreateFailuresAreFatal ==
    \A i \in 1..Len(trace) :
       /\ (trace[i].op = "lookup" /\ trace[i].status = 404) =>
             /\ i < Len(trace)
             /\ trace[i + 1].op = "create"
             /\ trace[i + 1].arg = trace[i].arg
       /\ (trace[i].op = "lookup" /\ trace[i].status >= 400
              /\ trace[i].status # 404) =>
             /\ i = Len(trace)
             /\ pc \in {"raised", "error"}
             /\ exc.at = "lookup"
             /\ upload_url = NoTag /\ uploads = <<>>
       /\ (trace[i].op = "create" /\ trace[i].status >= 400) =>
             /\ i = Len(trace)
             /\ pc \in {"raised", "error"}
             /\ exc.at = "create"
             /\ upload_url = NoTag /\ uploads = <<>>
             /\ releases[trace[i].arg] = 0

\* C8 witness: the lookup answered 500 and the attempt is aborted.
C8_Witness ==
    /\ pc = "raised"
    /\ exc = Exc("HTTPError", "lookup")
    /\ trace[Len(trace)] = Ev("lookup", tag, 500)

\* What the classifier a _pick_slug call ended up using says of an interface
\* number: the built-in table after a fallback, else the external routine.
UsedClassifier(p, iv) ==
    IF p.fallback THEN toc_to_type(iv)
    ELSE BashTocToType(script, interp, table, iv).out

Classifications(p) ==
    {UsedClassifier(p, Ivals(p.info)[i]) : i \in 1..Len(Ivals(p.info))}

\* C9: a build with at least one game version that classifies as "retail"
\* resolves to the empty slug, whatever its other versions classify as and
\* whichever classifier was used; its download keeps that empty slug.
C9_RetailOverrides ==
    /\ \A i \in 1..Len(picks) :
         (picks[i].raised = None /\ "retail" \in Classifications(picks[i]))
            => picks[i].slug = ""
    /\ \A i \in 1..Len(downloads) :
         (picks[i].raised = None /\ "retail" \in Classifications(picks[i]))
            => downloads[i].slug = ""

\* C9 witness: a build of a retail and a classic version resolved to "" with
\* the external classifier, and one with the built-in classifier.
C9_Witness ==
    \E i \in 1..Len(picks) :
       /\ picks[i].raised = None
       /\ Classifications(picks[i]) = {"retail", "classic"}
       /\ picks[i].slug = ""
       /\ ~picks[i].fallback

\* C10: a build whose versions classify to two or more distinct slugs, none
\* of them "retail", resolves to the classification of the largest interface
\* number among its versions.
C10_TieBreakIsMaxInterface ==
    \A i \in 1..Len(picks) :
       LET ivals == Ivals(picks[i].info) IN
       (/\ picks[i].raised = None
        /\ Cardinality(Classifications(picks[i])) >= 2
        /\ "retail" \notin Classifications(picks[i]))
          => \E k \in 1..Len(ivals) :
                /\ \A j \in 1..Len(ivals) : ivals[j] <= ivals[k]
                /\ picks[i].slug = UsedClassifier(picks[i], ivals[k])

\* C10 witness: versions 1.12.0 and 2.5.4 classified "classic" and "bcc", and
\* the build resolved to "bcc", the class of 20504.
C10_Witness ==
    \E i \in 1..Len(picks) :
       /\ picks[i].raised = None
       /\ Ivals(picks[i].info) = <<11200, 20504>>
       /\ Classifications(picks[i]) = {"classic", "bcc"}
       /\ picks[i].slug = "bcc"

\* ---------------------------------------------------- toc_to_type (C11)
RECURSIVE Pow10(_)
Pow10(k) == IF k = 0 THEN 1 ELSE 10 * Pow10(k - 1)

\* The decimal form of n begins with the two-digit number p.
BeginsWith(n, p) ==
    \E k \in 0..6 : p * Pow10(k) <= n /\ n < (p + 1) * Pow10(k)

\* The band of an interface number, by its value.
Band(n) ==
    IF BeginsWith(n, 11) /\ 10000 <= n /\ n <= 99999 THEN "classic"
    ELSE IF BeginsWith(n, 20) THEN "bcc"
    ELSE IF BeginsWith(n, 30) THEN "wrath"
    ELSE IF BeginsWith(n, 40) THEN "cata"
    ELSE "retail"

\* C11: toc_to_type answers every non-negative interface number with exactly
\* one slug, fixed by the decimal prefix: "classic" when the decimal form
\* begins with 11 and has exactly five digits, "bcc" when it begins with 20,
\* "wrath" with 30, "cata" with 40, "retail" otherwise; so 40402 is cata,
\* 11506 classic, 20504 bcc, 30402 wrath and 90205 retail.
C11_TocToTypeBands ==
    Returned("toc_to_type") =>
        /\ call.out[1] = Band(call.arg)
        /\ call.arg = 40402 => call.out[1] = "cata"
        /\ call.arg = 11506 => call.out[1] = "classic"
        /\ call.arg = 20504 => call.out[1] = "bcc"
        /\ call.arg = 30402 => call.out[1] = "wrath"
        /\ call.arg = 90205 => call.out[1] = "retail"

\* A six-digit number beginning with 11 (11.0.2) has been classified, and it
\* is not classic.
C11_Witness ==
    /\ Returned("toc_to_type")
    /\ call.arg = 110002
    /\ call.out[1] = "retail"

\* ------------------------------------------------ interface number (C12)
\* C12: for a dotted version name of at least two numeric components the
\* interface number is major * 10000 + minor * 100 + patch, the patch being 0
\* when the name has no third component, and the manifest builder computes
\* the same number of the name as the flavor resolver does.
C12_InterfaceNumber ==
    Returned("interface") =>
        LET c == call.arg.parts
            patch == IF Len(c) >= 3 THEN c[3] ELSE 0
        IN /\ call.out[1].resolver = c[1] * 10000 + c[2] * 100 + patch
           /\ call.out[1].manifest = call.out[1].resolver

\* The number of a name without a patch component, "4.4", has been computed
\* by both routines: 40400.
C12_Witness ==
    /\ Returned("interface")
    /\ call.arg.name = <<"4", ".", "4">>
    /\ call.out[1] = [resolver |-> 40400, manifest |-> 40400]

\* ------------------------------------------------ _get_latest_files (C13)
\* The position at which x first appears in the sequence s.
FirstAt(s, x) ==
    CHOOSE i \in 1..Len(s) : s[i] = x /\ \A j \in 1..(i - 1) : s[j] # x

\* C13: _get_latest_files returns only files of release type Release, each
\* file id at most once, and lists them in the order in which their ids first
\* appear in latestFilesIndexes: the ids returned are exactly the indexed ids
\* that have a Release file, by first appearance.
C13_LatestFilesOrdered ==
    Returned("_get_latest_files") =>
        LET r   == call.out[1]
            lf  == call.arg.latestFiles
            ix  == call.arg.latestFilesIndexes
            rel == {lf[j].id : j \in {k \in 1..Len(lf) :
                                        lf[k].releaseType = 1}}
        IN /\ \A i \in 1..Len(r) :
                 /\ r[i].releaseType = 1
                 /\ \E j \in 1..Len(lf) : lf[j] = r[i]
           /\ \A i, j \in 1..Len(r) : i # j => r[i].id # r[j].id
           /\ {r[i].id : i \in 1..Len(r)} =
                 {ix[k] : k \in 1..Len(ix)} \cap rel
           /\ \A i, j \in 1..Len(r) :
                 i < j => FirstAt(ix, r[i].id) < FirstAt(ix, r[j].id)

\* Files 1 and 2 are both releases, the index lists 2, 1, 2, and the result
\* is file 2 then file 1.
C13_Witness ==
    /\ Returned("_get_latest_files")
    /\ call.arg.latestFilesIndexes = <<2, 1, 2>>
    /\ call.arg.latestFiles = <<[id |-> 1, releaseType |-> 1],
                                [id |-> 2, releaseType |-> 1]>>
    /\ call.out[1] = <<[id |-> 2, releaseType |-> 1],
                       [id |-> 1, releaseType |-> 1]>>

\* -------------------------------------------------- _build_manifest (C14)
\* C14: _build_manifest yields exactly one entry per resolved build, in input
\* order and without deduplication; every entry has nolib false and one
\* metadata element per sortable game version of the build, in declared
\* order, whose flavor is the registry's slug of the version's type id, or
\* "mainline" when the registry does not hold the id.
C14_ManifestEntries ==
    Returned("_build_manifest") =>
        LET rel == call.out[1].releases
            dls == call.arg.downloads
            reg == call.arg.registry
        IN /\ Len(rel) = Len(dls)
           /\ \A i \in 1..Len(dls) :
                 LET gvs == dls[i].info.sortableGameVersions
                     md  == rel[i].metadata
                 IN /\ rel[i].filename = dls[i].fn
                    /\ rel[i].name = call.arg.name
                    /\ rel[i].nolib = FALSE
                    /\ Len(md) = Len(gvs)
                    /\ \A k \in 1..Len(gvs) :
                          LET t == gvs[k].gameVersionTypeId
                              c == gvs[k].gameVersionName
                          IN /\ t \in DOMAIN reg => md[k].flavor = reg[t]
                             /\ t \notin DOMAIN reg =>
                                    md[k].flavor = "mainline"
                             /\ md[k].interface =
                                    c[1] * 10000 + c[2] * 100
                                    + (IF Len(c) >= 3 THEN c[3] ELSE 0)

\* The same build given twice yields two entries, and its version of type
\* id 3, which the registry does not list, has the flavor "mainline" next to
\* the listed "classic".
C14_Witness ==
    /\ Returned("_build_manifest")
    /\ call.arg.registry = VersionTypesListing
    /\ Len(call.arg.downloads) = 2
    /\ call.arg.downloads[1] = call.arg.downloads[2]
    /\ call.arg.downloads[1].info = FileCataClassic
    /\ Len(call.out[1].releases) = 2
    /\ call.out[1].releases[2].metadata =
          <<[flavor |-> "mainline", interface |-> 40400],
            [flavor |-> "classic", interface |-> 11506]>>

\* ------------------------------------------- one release per process (C15)
\* C15: over all the attempts of one process at most one release is created
\* on the hosting service: an attempt never creates a release after an
\* earlier attempt of the process created one.
C15_AtMostOneReleaseCreated ==
    Cardinality(created) <= 1

\* ------------------------------------------------ order of uploads (C16)
\* The places of the upload requests in the trace of the attempt.
UploadPlaces == {i \in 1..Len(trace) : trace[i].op = "upload"}

\* C16: within one attempt the uploads are sequential and ordered: the build
\* artifacts go in download order and release.json goes last, only after
\* every artifact upload succeeded; a failed upload is the last request of
\* the attempt; and no upload is made before every file is downloaded, the
\* manifest written and the release found (200) or created (201).
C16_UploadsInOrder ==
    /\ Len(UploadEvents) <= Len(downloads) + 1
    /\ \A k \in 1..Len(UploadEvents) :
          /\ UploadEvents[k].arg =
                IF k <= Len(downloads) THEN downloads[k].info.id ELSE 0
          /\ k < Len(UploadEvents) => UploadEvents[k].status < 400
    /\ Len(uploads) <= Len(UploadEvents)
    /\ \A k \in 1..Len(uploads) :
          uploads[k] = IF k <= Len(downloads) THEN downloads[k].fn
                       ELSE <<"release.json">>
    /\ \A i \in UploadPlaces :
          /\ trace[i].status >= 400 => i = Len(trace)
          /\ Len(downloads) = Len(files)
          /\ upload_url = tag /\ tag \in Tags
          /\ \E j \in 1..(i - 1) :
                /\ trace[j].arg = tag
                /\ \/ trace[j].op = "lookup" /\ trace[j].status = 200
                   \/ trace[j].op = "create" /\ trace[j].status = 201
                /\ \A n \in (j + 1)..i : trace[n].op = "upload"

\* Two artifacts were uploaded in download order and the upload of
\* release.json, the third, was refused.
C16_Witness ==
    /\ Len(downloads) = 2
    /\ Len(uploads) = 2
    /\ Len(UploadEvents) = 3
    /\ UploadEvents[3] = Ev("upload", 0, 422)
    /\ pc = "raised"

\* ------------------------------------------- classifiers are not mixed (C17)
\* The slug _pick_slug returns for a slug set and a tie-break slug.
Resolved(slugs, tiebreak) ==
    IF "retail" \in slugs THEN ""
    ELSE IF Cardinality(slugs) = 1 THEN CHOOSE x \in slugs : TRUE
    ELSE tiebreak

\* The external routine fails part-way through the versions of the call: the
\* interpreter ran the routine for the first versions and is absent at a
\* later one.
FailsPartWay ==
    /\ ExtractRoutine(call.arg.script).brace_count = 0
    /\ \E k \in 2..Len(call.arg.info.sortableGameVersions) :
          /\ call.arg.interps[k] = "absent"
          /\ \A j \in 1..(k - 1) : call.arg.interps[j] = "ok"

RECURSIVE Depth(_, _, _)
Depth(lines, from, to) ==
    IF to < from THEN 0
    ELSE Depth(lines, from, to - 1) + lines[to].lb - lines[to].rb

\* The lines of the complete routine of a script: from its first opening
\* line to the first later line after which the braces balance; <<>> when
\* there is no opening line or the braces never balance.
CompleteRoutine(lines) ==
    LET opens == {i \in 1..Len(lines) : lines[i].opening} IN
    IF opens = {} THEN <<>>
    ELSE LET o == CHOOSE i \in opens : \A j \in opens : i <= j
             ends == {j \in (o + 1)..Len(lines) : Depth(lines, o, j) = 0}
         IN IF ends = {} THEN <<>>
            ELSE [n \in 1..((CHOOSE j \in ends : \A m \in ends : j <= m)
                             - o + 1) |-> o + n - 1]

\* C18: the extraction accumulates the lines from the opening line of
\* toc_to_type up to the first line after which the brace counter is zero,
\* and it fails with FunctionExtractionError whenever the end of the script
\* is reached without a complete routine - the braces are unbalanced, or the
\* routine is missing altogether - so that nothing is executed then.
C18_ExtractionFailsWithoutRoutine ==
    Returned("_bash_toc_to_type") =>
        LET routine == CompleteRoutine(call.arg)
            r       == call.out[1]
        IN /\ routine # <<>> =>
                 /\ r.ext.func_body = routine
                 /\ r.res.raised # "FunctionExtractionError"
           /\ routine = <<>> => r.res.raised = "FunctionExtractionError"

\* ---------------------------------------------- a retry does not resume (C19)
\* How many times the release of tag t has stored the asset name.
TimesStored(store, t, name) ==
    IF name \in DOMAIN store[t] THEN store[t][name] ELSE 0

\* C19: an attempt does not resume from what an earlier attempt left on the
\* release it resolves to: every upload it issues is the next asset by
\* position (the first artifact first), whether or not the release already
\* holds an asset of that name, and an upload answered with success stores
\* the asset once more.
C19_RetryUploadsFromTheFirst ==
    [][(pc = "upload" /\ trace' # trace) =>
          LET k    == Len(uploads) + 1
              name == IF k <= Len(downloads) THEN downloads[k].fn
                      ELSE <<"release.json">>
              id   == IF k <= Len(downloads) THEN downloads[k].info.id
                      ELSE 0
              sent == trace'[Len(trace')]
          IN /\ Len(trace') = Len(trace) + 1
             /\ sent.op = "upload" /\ sent.arg = id
             /\ sent.status < 400 =>
                   /\ uploads' = Append(uploads, name)
                   /\ TimesStored(assets', upload_url, name) =
                         TimesStored(assets, upload_url, name) + 1
             /\ sent.status >= 400 => assets' = assets]_vars

\* The second attempt resolved to the release the first one had uploaded its
\* first artifact to, and uploaded that artifact again: the release has
\* stored the same asset name twice.
C19_Witness ==
    /\ attempt = 2
    /\ upload_url \in Watched
    /\ uploads # <<>>
    /\ uploads[1] = downloads[1].fn
    /\ TimesStored(assets, upload_url, uploads[1]) = 2

\* ---------------------------------------------------- local file name (C20)
\* C20: the local file name of a declared zip file is the declared name when
\* the slug is empty; with a slug the name ends with "-<slug>.zip", the
\* suffix being appended once when the base does not already end with it and
\* not at all when it does; naming the result again leaves it unchanged.
C20_LocalFilenameSuffix ==
    Returned("_download_file") =>
        LET name   == call.arg.fileName
            slug   == call.arg.slug
            base   == SubSeq(name, 1, Len(name) - 1)
            suffix == <<"-", slug>>
            fn     == call.out[1].once
        IN /\ slug = "" => fn = name
           /\ slug # "" =>
                 /\ endswith(fn, suffix \o <<".zip">>)
                 /\ endswith(base, suffix) => fn = name
                 /\ ~endswith(base, suffix) =>
                        fn = base \o suffix \o <<".zip">>
           /\ call.out[1].twice = fn

\* "Addon-classic.zip" with the slug classic keeps its name.
C20_Witness ==
    /\ Returned("_download_file")
    /\ call.arg = [fileName |-> <<"Addon", "-", "classic", ".zip">>,
                   slug |-> "classic"]
    /\ call.out[1].once = <<"Addon", "-", "classic", ".zip">>

====
